---- MODULE Spec2Model ----
(***************************************************************************)
(* The chunked upload pipeline of media-vault-plus-premium.                *)
(*                                                                         *)
(* uploadFileInChunks exists in three versions, which differ in how they   *)
(* schedule the chunks of one file:                                        *)
(*   "sliding"     src/src/components/upload/chunkUploadUtils.ts           *)
(*   "batch"       src/unnamed/part_003 (Promise.allSettled per batch)     *)
(*   "sequential"  src/src/components/upload/uploadConfig.ts, lines 29-195 *)
(*                                                                         *)
(* One behaviour is one invocation of uploadFileInChunks on one file.      *)
(* JavaScript runs every piece of code between two awaits to completion,   *)
(* and runs the continuations of settled promises (microtasks) before the  *)
(* next event (a network response, a timer, a click).  The steps of the    *)
(* main function are therefore taken with priority: an event is handled    *)
(* only when the main function is suspended (~Runnable).                   *)
(***************************************************************************)
EXTENDS Integers, Sequences, FiniteSets

(* ------------------------------ configuration ------------------------- *)

\* UPLOAD_CONFIG.CHUNK_SIZE, scaled down from 10 MB to keep file sizes enumerable
CHUNK_SIZE == 2
\* UPLOAD_CONFIG.MAX_CONCURRENT_UPLOADS, scaled down from 4
MAX_CONCURRENT_UPLOADS == 2
\* UPLOAD_CONFIG.MAX_RETRIES
MAX_RETRIES == 3
\* UPLOAD_CONFIG.RETRY_DELAY_BASE (milliseconds)
RETRY_DELAY_BASE == 1000
\* the largest number of chunks of a file that is explored
MaxChunks == 4
\* the largest value of Date.now() that is explored
MaxClock == 3
\* the largest number of files dropped at once that is explored
MaxBatch == 2

Variants == {"sliding", "batch", "sequential"}
FileSizes == 0..(MaxChunks * CHUNK_SIZE)

VARIABLES
  variant,        \* which version of uploadFileInChunks runs
  fileSize,       \* file.size
  cancelled,      \* cancellationToken.cancelled
  pcMain,         \* where uploadFileInChunks is
  i,              \* the loop variable of its dispatch loop
  chunks,         \* the chunks array: index -> ChunkData
  cst,            \* per chunk: where its uploadChunk call is
  attempt,        \* per chunk: the loop variable of the retry loop
  calls,          \* per chunk: storage upload calls started
  fails,          \* per chunk: storage upload calls that failed
  okCalls,        \* per chunk: storage upload calls that returned without error
  lastErr,        \* per chunk: the error of the most recent failed call
  waited,         \* per chunk: the backoff delays waited, in order
  reason,         \* per chunk: what the uploadChunk promise rejected with
  uploadedChunks, \* the closure variable uploadedChunks
  progress,       \* the file's entry of uploadProgress: progress
  status,         \* the file's entry of uploadProgress: status
  records,        \* rows of user_files inserted by this upload
  thrown,         \* the error uploadFileInChunks rejected with
  cancelledAtStart, \* cancellationToken.cancelled when uploadFileInChunks was called
  cancelledAtIssue, \* cancellationToken.cancelled when the insert was issued
  timestamp,      \* const timestamp = Date.now() of this invocation
  clock,          \* what Date.now() returns
  plan1,          \* the chunks array built by a first invocation on the file
  plan2,          \* the chunks array built by a second invocation on the file
  hung,           \* chunks whose storage upload call never returns
  aborted,        \* per chunk: controller.abort() was called for the attempt
  user,           \* FileUpload: useAuth() returned a user
  userProfile,    \* FileUpload: the userProfile prop
  batch,          \* onDrop: acceptedFiles
  cur,            \* onDrop: how many files of the batch were passed to uploadFileInChunks
  pcDrop,         \* where onDrop is
  uploading,      \* FileUpload: the uploading state
  toasts,         \* the titles of the toasts shown
  earlier,        \* uploadProgress: the entries of the earlier files of the batch
  curName,        \* file.name of the file being uploaded
  clearPending,   \* the timer that clears uploadProgress is set
  uploadedBytes,  \* const uploadedBytes of the latest progress update
  storage,        \* the bucket user-files: object key -> stored object
  storage_used,   \* user_profile.storage_used of the user, in the database
  pcDelete,       \* where deleteFile is
  delId,          \* deleteFile: the argument fileId
  refreshing      \* Dashboard: handleUploadComplete has not yet returned

vars == <<variant, fileSize, cancelled, pcMain, i, chunks, cst, attempt, calls,
          fails, okCalls, lastErr, waited, reason, uploadedChunks, progress,
          status, records, thrown, cancelledAtStart, cancelledAtIssue,
          timestamp, clock, plan1, plan2, hung, aborted, user, userProfile,
          batch, cur, pcDrop, uploading, toasts, earlier, curName,
          clearPending, uploadedBytes, storage, storage_used, pcDelete,
          delId, refreshing>>

\* what only deleteFile writes
deleteVars == <<pcDelete, delId>>

\* the throughput figure, the bucket and the database column
storeVars == <<uploadedBytes, storage, storage_used>>

chunkVars == <<cst, attempt, calls, fails, okCalls, lastErr, waited, reason>>

planVars == <<clock, plan1, plan2>>

timeoutVars == <<hung, aborted>>

\* what uploadFileInChunks and uploadChunk never write
dropConst == <<user, userProfile, batch, cur, pcDrop, curName, clearPending>>

(* ------------------------------ pure helpers -------------------------- *)

\* Math.ceil(a / b) for a >= 0, b > 0
Ceil(a, b) == (a + b - 1) \div b

Min(a, b) == IF a < b THEN a ELSE b

RECURSIVE Pow(_, _)
Pow(b, k) == IF k = 0 THEN 1 ELSE b * Pow(b, k - 1)

\* Math.round(x / y * 100) for x >= 0, y > 0 (round half up)
RoundPercent(x, y) == (200 * x + y) \div (2 * y)

\* errors are pairs <<kind, attempt>>
NoErr == <<"none", -1>>
CancelErr == <<"cancelled", -1>>
TooManyErr == <<"tooMany", -1>>
DbErr == <<"db", -1>>

\* const totalChunks = Math.ceil(file.size / UPLOAD_CONFIG.CHUNK_SIZE)
TotalChunks(size) == Ceil(size, CHUNK_SIZE)

totalChunks == TotalChunks(fileSize)

ChunkIdx == 0..(totalChunks - 1)

\* the id of the signed-in user, and file.name.split('.').pop()
userId == "user"

fileExt == "ext"

\* fault injection: the key also counts the invocations made before this one
FileNameCounted(uid, ts, ext) == <<uid, "/", ts + Len(plan1), ".", ext>>

\* const fileName = `${userId}/${timestamp}.${fileExt}`, as its pieces
FileName(uid, ts, ext) == <<uid, "/", ts, ".", ext>>

\* fault injection: chunk 0 keeps the bare base key in a multi-chunk file
ChunkFileNameFirstBare(base, n, c) ==
  IF n = 1 \/ c = 0 THEN base ELSE base \o <<".part", c>>

\* fileName: totalChunks === 1 ? fileName : `${fileName}.part${i}`
ChunkFileName(base, n, c) == IF n = 1 THEN base ELSE base \o <<".part", c>>

\* the chunk planning loop
PlanChunks(size, base) ==
  [c \in 0..(TotalChunks(size) - 1) |->
     LET start == c * CHUNK_SIZE
         end == Min(start + CHUNK_SIZE, size)
     IN [index |-> c, start |-> start, end |-> end, size |-> end - start,
         fileName |-> ChunkFileName(base, TotalChunks(size), c)]]

\* fault injection: the backoff of the fixed-batch version (1.5^k) everywhere
RetryDelayOneAndHalf(v, k) == (RETRY_DELAY_BASE * Pow(3, k)) \div Pow(2, k)

\* fault injection: the exponent taken after attempt++ (2^(k+1))
RetryDelayShifted(v, k) == RETRY_DELAY_BASE * Pow(2, k + 1)

\* the delay before the next attempt, after attempt k failed
RetryDelay(v, k) ==
  IF v = "batch"
    THEN (RETRY_DELAY_BASE * Pow(3, k)) \div Pow(2, k)
    ELSE RETRY_DELAY_BASE * Pow(2, k)

\* const batchSize = Math.min(UPLOAD_CONFIG.MAX_CONCURRENT_UPLOADS, 4)
batchSize == Min(MAX_CONCURRENT_UPLOADS, 4)

Batch(from) == {c \in ChunkIdx : from <= c /\ c < from + batchSize}

Settled(c) == cst[c] \in {"resolved", "rejected"}

InFlight == {c \in ChunkIdx : cst[c] \in {"uploading", "backoff"}}

\* setUploadProgress(prev => prev.map(p =>
\*   p.fileName === file.name ? { ...p, progress } : p))
MapProgress(list, name, pr) ==
  [k \in DOMAIN list |->
     IF list[k].fileName = name THEN [list[k] EXCEPT !.progress = pr]
     ELSE list[k]]

\* setUploadProgress(prev => prev.map(p =>
\*   p.fileName === file.name ? { ...p, status } : p))
MapStatus(list, name, st) ==
  [k \in DOMAIN list |->
     IF list[k].fileName = name THEN [list[k] EXCEPT !.status = st]
     ELSE list[k]]

\* userProfile is null
NoProfile == [present |-> FALSE, storage_used |-> 0, storage_limit |-> 0]

(* ------------------------------ initial state ------------------------- *)

Init ==
  /\ variant \in Variants
  /\ fileSize \in FileSizes
  /\ cancelled \in (IF variant = "sliding" THEN BOOLEAN ELSE {FALSE})
  /\ pcMain = "start"
  /\ i = 0
  /\ chunks = <<>>
  /\ cst = [c \in ChunkIdx |-> "idle"]
  /\ attempt = [c \in ChunkIdx |-> 0]
  /\ calls = [c \in ChunkIdx |-> 0]
  /\ fails = [c \in ChunkIdx |-> 0]
  /\ okCalls = [c \in ChunkIdx |-> 0]
  /\ lastErr = [c \in ChunkIdx |-> NoErr]
  /\ waited = [c \in ChunkIdx |-> <<>>]
  /\ reason = [c \in ChunkIdx |-> NoErr]
  /\ uploadedChunks = 0
  /\ progress = 0
  /\ status = "none"
  /\ records = <<>>
  /\ thrown = NoErr
  /\ cancelledAtStart = cancelled
  /\ cancelledAtIssue = FALSE
  /\ timestamp = 0
  /\ clock = 1
  /\ plan1 = <<>>
  /\ plan2 = <<>>
  /\ hung = {}
  /\ aborted = [c \in ChunkIdx |-> FALSE]
  /\ user = TRUE
  /\ userProfile = NoProfile
  /\ batch = <<>>
  /\ cur = 0
  /\ pcDrop = "none"
  /\ uploading = TRUE
  /\ toasts = {}
  /\ earlier = <<>>
  /\ curName = "a.ext"
  /\ clearPending = FALSE
  /\ uploadedBytes = 0
  /\ storage = <<>>
  /\ storage_used = 0
  /\ pcDelete = "idle"
  /\ delId = 0
  /\ refreshing = FALSE

(* ------------------------------ decisions of the code ----------------- *)

\* fault injection: the cancellation flag polled at entry only, not per attempt
AttemptCancelledAtEntryOnly(v, flag, att) == v = "sliding" /\ flag /\ att = 0

\* uploadChunk, top of the retry loop: if (cancellationToken.cancelled) throw.
\* Only the sliding-window version takes a cancellation token.
AttemptCancelled(v, flag, att) == v = "sliding" /\ flag

\* fault injection: the last-attempt test off by one, so the loop runs out
IsLastAttemptOffByOne(att) == att = MAX_RETRIES

\* if (attempt === UPLOAD_CONFIG.MAX_RETRIES - 1) throw ...
IsLastAttempt(att) == att = MAX_RETRIES - 1

\* fault injection: uploadedChunks++ placed before the uploadError test
CountAfterCallAlways(u, outcome) == u + 1

\* uploadedChunks++ happens on the success path only
CountAfterCall(u, outcome) == IF outcome = "ok" THEN u + 1 ELSE u

\* fault injection: progress derived from the chunk index, not the counter
ProgressAfterByIndex(u, n, index) == RoundPercent(index + 1, n)

\* progress: Math.round((uploadedChunks / totalChunks) * 100)
ProgressAfter(u, n, index) == RoundPercent(u, n)

\* fault injection: the dispatch loop never waits for its slot
SlotNeverBusy(idx) == FALSE

\* dispatch loop: if (semaphore[slotIndex]) await semaphore[slotIndex];
\* slot idx % MAX_CONCURRENT_UPLOADS holds a promise once an earlier chunk used it
SlotBusy(idx) == idx >= MAX_CONCURRENT_UPLOADS

\* fault injection: the dispatch loop awaits the slot it is about to fill
SlotHolderSelf(idx) == idx

\* the chunk whose promise sits in the slot of chunk idx
SlotHolder(idx) == idx - MAX_CONCURRENT_UPLOADS

\* fault injection: the failures compared with the batch length, not its half
TooManyFailedWholeBatch(failed, len) == failed > len

\* if (failedUploads.length > batch.length / 2) throw
TooManyFailed(failed, len) == 2 * failed > len

\* catch: status = error.message.includes('cancelled') ? 'cancelled' : 'error'
CatchStatus(v, err) ==
  IF v = "sliding" /\ err[1] = "cancelled" THEN "cancelled" ELSE "error"

\* fault injection: the record always refers to the bare base key
FinalFileNameBare(base, n) == base

\* finalFileName: fileName, or fileName + '.part0' when totalChunks > 1
FinalFileName(base, n) == IF n > 1 THEN base \o <<".part", 0>> ELSE base

\* supabase.storage.from('user-files').getPublicUrl(finalFileName)
PublicUrl(key) == <<"public/user-files/">> \o key

(* ------------------------------ storage and database ------------------ *)

\* fault injection: every call may overwrite
UpsertAlways(index) == TRUE

\* the option upsert: index === 0 of the storage upload call
Upsert(index) == index = 0

\* storage.upload(key, blob, {upsert}) can return without error: an object
\* at the key is overwritten only with upsert, else the call fails with
\* 'The resource already exists'
CanStore(bucket, key, upsert) == key \notin DOMAIN bucket \/ upsert

\* the object a successful upload call of the chunk leaves at its key
StoredChunk(ch) == [by |-> "upload", index |-> ch.index, size |-> ch.size]

\* the bucket after a successful upload call
Put(bucket, key, obj) ==
  [k \in DOMAIN bucket \cup {key} |-> IF k = key THEN obj ELSE bucket[k]]

RECURSIVE SumChunkSizes(_, _)
\* chunks.slice(0, n).reduce((sum, c) => sum + c.size, 0)
SumChunkSizes(chs, n) ==
  IF n = 0 THEN 0
  ELSE IF (n - 1) \notin DOMAIN chs THEN SumChunkSizes(chs, n - 1)
  ELSE chs[n - 1].size + SumChunkSizes(chs, n - 1)

\* const uploadedBytes: the sequential version adds up the sizes of the
\* first uploadedChunks chunks, the other two multiply by CHUNK_SIZE
UploadedBytes(v, u, chs) ==
  IF v = "sequential" THEN SumChunkSizes(chs, u) ELSE u * CHUNK_SIZE

\* update_user_storage, TG_OP = 'INSERT': storage_used + NEW.file_size
TriggerInsert(used, file_size) == used + file_size

\* fault injection: the delete trigger is missing
TriggerDeleteMissing(used, file_size) == used

\* update_user_storage, TG_OP = 'DELETE': storage_used - OLD.file_size
TriggerDelete(used, file_size) == used - file_size

(* ------------------------------ the event loop ------------------------ *)

Rejected == {c \in ChunkIdx : cst[c] = "rejected"}

\* the main function has a step to take now (synchronous code or a microtask)
Runnable ==
  \/ pcMain \in {"start", "loop", "finalize"}
  \/ pcMain = "waitSlot" /\ Settled(SlotHolder(i))
  \/ pcMain = "waitChunk" /\ Settled(i)
  \/ pcMain = "waitBatch" /\ \A c \in Batch(i) : Settled(c)
  \/ pcMain = "join" /\ (Rejected # {} \/ \A c \in ChunkIdx : cst[c] = "resolved")
  \/ pcDrop = "running" /\ pcMain \in {"idle", "done", "failed"}

\* the catch block of uploadFileInChunks
Throw(err) ==
  /\ pcMain' = "failed"
  /\ thrown' = err
  /\ status' = CatchStatus(variant, err)
  /\ earlier' = MapStatus(earlier, curName, CatchStatus(variant, err))

\* uploadChunk / uploadWithMaxSpeed is called for every chunk of S and runs
\* up to its first await
BeginChunks(S) ==
  LET stop == AttemptCancelled(variant, cancelled, 0) IN
  /\ cst' = [c \in ChunkIdx |->
               IF c \in S THEN (IF stop THEN "rejected" ELSE "uploading")
               ELSE cst[c]]
  /\ reason' = [c \in ChunkIdx |->
               IF c \in S /\ stop THEN CancelErr ELSE reason[c]]
  /\ calls' = [c \in ChunkIdx |->
               IF c \in S /\ ~stop THEN calls[c] + 1 ELSE calls[c]]
  /\ UNCHANGED <<attempt, fails, okCalls, lastErr, waited>>

AfterLoop == IF variant = "sliding" THEN "join" ELSE "finalize"

(* ------------------------------ uploadFileInChunks -------------------- *)

\* lines 24-58: the progress entry is added and the chunks are planned
Begin ==
  /\ pcMain = "start"
  /\ timestamp' = clock
  /\ chunks' = PlanChunks(fileSize, FileName(userId, clock, fileExt))
  /\ status' = "uploading"
  /\ progress' = 0
  /\ uploadedChunks' = 0
  /\ i' = 0
  /\ pcMain' = IF 0 < totalChunks THEN "loop" ELSE AfterLoop
  /\ UNCHANGED <<dropConst, uploading, toasts, earlier>>
  /\ UNCHANGED <<storeVars, planVars, deleteVars, timeoutVars>>
  /\ UNCHANGED <<cancelledAtStart, variant, refreshing, fileSize, cancelled,
                 chunkVars, records, thrown, cancelledAtIssue>>

\* sliding window, top of a loop iteration: the cancellation check throws
SlidingCancelled ==
  /\ variant = "sliding" /\ pcMain = "loop"
  /\ cancelled
  /\ Throw(CancelErr)
  /\ UNCHANGED <<dropConst, uploading, toasts>>
  /\ UNCHANGED <<storeVars, planVars, deleteVars, timeoutVars, timestamp>>
  /\ UNCHANGED <<cancelledAtStart, variant, refreshing, fileSize, cancelled,
                 i, chunks, chunkVars, uploadedChunks, progress, records,
                 cancelledAtIssue>>

\* sliding window: the slot holds a promise, await it
SlidingAwaitSlot ==
  /\ variant = "sliding" /\ pcMain = "loop"
  /\ ~cancelled
  /\ SlotBusy(i)
  /\ pcMain' = "waitSlot"
  /\ UNCHANGED <<dropConst, uploading, toasts, earlier>>
  /\ UNCHANGED <<storeVars, planVars, deleteVars, timeoutVars, timestamp>>
  /\ UNCHANGED <<cancelledAtStart, variant, refreshing, fileSize, cancelled,
                 i, chunks, chunkVars, uploadedChunks, progress, status,
                 records, thrown, cancelledAtIssue>>

\* sliding window: uploadChunk(chunks[i]) is called, its promise stored
SlidingDispatch ==
  /\ variant = "sliding"
  /\ \/ pcMain = "loop" /\ ~cancelled /\ ~SlotBusy(i)
     \/ pcMain = "waitSlot" /\ cst[SlotHolder(i)] = "resolved"
  /\ BeginChunks({i})
  /\ i' = i + 1
  /\ pcMain' = IF i + 1 < totalChunks THEN "loop" ELSE "join"
  /\ UNCHANGED <<dropConst, uploading, toasts, earlier>>
  /\ UNCHANGED <<storeVars, planVars, deleteVars, timeoutVars, timestamp>>
  /\ UNCHANGED <<cancelledAtStart, variant, refreshing, fileSize, cancelled,
                 chunks, uploadedChunks, progress, status, records, thrown,
                 cancelledAtIssue>>

\* the sequential loop catches the rejection and goes on with the next chunk
AwaitRejectedSkips ==
  /\ \/ pcMain = "waitSlot" /\ cst[SlotHolder(i)] = "rejected"
        /\ Throw(reason[SlotHolder(i)])
        /\ i' = i
     \/ pcMain = "waitChunk" /\ cst[i] = "rejected"
        /\ i' = i + 1
        /\ pcMain' = (IF i + 1 < totalChunks THEN "loop" ELSE "finalize")
        /\ UNCHANGED <<status, thrown, earlier>>
  /\ UNCHANGED <<dropConst, uploading, toasts>>
  /\ UNCHANGED <<storeVars, planVars, deleteVars, timeoutVars, timestamp>>
  /\ UNCHANGED <<cancelledAtStart, variant, refreshing, fileSize, cancelled,
                 chunks, chunkVars, uploadedChunks, progress, records,
                 cancelledAtIssue>>

\* the awaited promise (a slot, or the chunk of the sequential loop) rejected
AwaitRejected ==
  /\ \/ pcMain = "waitSlot" /\ cst[SlotHolder(i)] = "rejected"
        /\ Throw(reason[SlotHolder(i)])
     \/ pcMain = "waitChunk" /\ cst[i] = "rejected"
        /\ Throw(reason[i])
  /\ UNCHANGED <<dropConst, uploading, toasts>>
  /\ UNCHANGED <<storeVars, planVars, deleteVars, timeoutVars, timestamp>>
  /\ UNCHANGED <<cancelledAtStart, variant, refreshing, fileSize, cancelled,
                 i, chunks, chunkVars, uploadedChunks, progress, records,
                 cancelledAtIssue>>

\* await Promise.all(uploadPromises): every promise fulfilled
JoinResolved ==
  /\ pcMain = "join"
  /\ \A c \in ChunkIdx : cst[c] = "resolved"
  /\ pcMain' = "finalize"
  /\ UNCHANGED <<dropConst, uploading, toasts, earlier>>
  /\ UNCHANGED <<storeVars, planVars, deleteVars, timeoutVars, timestamp>>
  /\ UNCHANGED <<cancelledAtStart, variant, refreshing, fileSize, cancelled,
                 i, chunks, chunkVars, uploadedChunks, progress, status,
                 records, thrown, cancelledAtIssue>>

\* await Promise.all(uploadPromises): rejects with the first rejection
JoinRejected ==
  /\ pcMain = "join"
  /\ Rejected # {}
  /\ LET first == CHOOSE c \in Rejected : \A d \in Rejected : c <= d
     IN Throw(reason[first])
  /\ UNCHANGED <<dropConst, uploading, toasts>>
  /\ UNCHANGED <<storeVars, planVars, deleteVars, timeoutVars, timestamp>>
  /\ UNCHANGED <<cancelledAtStart, variant, refreshing, fileSize, cancelled,
                 i, chunks, chunkVars, uploadedChunks, progress, records,
                 cancelledAtIssue>>

\* fixed batches: batch.map(chunkData => uploadWithMaxSpeed(chunkData))
BatchStart ==
  /\ variant = "batch" /\ pcMain = "loop"
  /\ BeginChunks(Batch(i))
  /\ pcMain' = "waitBatch"
  /\ UNCHANGED <<dropConst, uploading, toasts, earlier>>
  /\ UNCHANGED <<storeVars, planVars, deleteVars, timeoutVars, timestamp>>
  /\ UNCHANGED <<cancelledAtStart, variant, refreshing, fileSize, cancelled,
                 i, chunks, uploadedChunks, progress, status, records,
                 thrown, cancelledAtIssue>>

\* fixed batches: Promise.allSettled resolved, the failures are counted
BatchSettled ==
  /\ variant = "batch" /\ pcMain = "waitBatch"
  /\ \A c \in Batch(i) : Settled(c)
  /\ LET failed == Cardinality(Batch(i) \cap Rejected)
         len == Cardinality(Batch(i))
     IN IF TooManyFailed(failed, len)
          THEN Throw(TooManyErr) /\ i' = i
          ELSE /\ i' = i + batchSize
               /\ pcMain' = IF i + batchSize < totalChunks THEN "loop"
                            ELSE "finalize"
               /\ UNCHANGED <<status, thrown, earlier>>
  /\ UNCHANGED <<dropConst, uploading, toasts>>
  /\ UNCHANGED <<storeVars, planVars, deleteVars, timeoutVars, timestamp>>
  /\ UNCHANGED <<cancelledAtStart, variant, refreshing, fileSize, cancelled,
                 chunks, chunkVars, uploadedChunks, progress, records,
                 cancelledAtIssue>>

\* sequential: await uploadWithMaxSpeed(chunks[i])
SeqDispatch ==
  /\ variant = "sequential" /\ pcMain = "loop"
  /\ BeginChunks({i})
  /\ pcMain' = "waitChunk"
  /\ UNCHANGED <<dropConst, uploading, toasts, earlier>>
  /\ UNCHANGED <<storeVars, planVars, deleteVars, timeoutVars, timestamp>>
  /\ UNCHANGED <<cancelledAtStart, variant, refreshing, fileSize, cancelled,
                 i, chunks, uploadedChunks, progress, status, records,
                 thrown, cancelledAtIssue>>

\* sequential: the chunk's promise fulfilled, next iteration
SeqResume ==
  /\ variant = "sequential" /\ pcMain = "waitChunk"
  /\ cst[i] = "resolved"
  /\ i' = i + 1
  /\ pcMain' = IF i + 1 < totalChunks THEN "loop" ELSE "finalize"
  /\ UNCHANGED <<dropConst, uploading, toasts, earlier>>
  /\ UNCHANGED <<storeVars, planVars, deleteVars, timeoutVars, timestamp>>
  /\ UNCHANGED <<cancelledAtStart, variant, refreshing, fileSize, cancelled,
                 chunks, chunkVars, uploadedChunks, progress, status,
                 records, thrown, cancelledAtIssue>>

\* final reference, getPublicUrl, and the user_files insert is issued
Finalize ==
  /\ pcMain = "finalize"
  /\ pcMain' = "insert"
  /\ cancelledAtIssue' = cancelled
  /\ UNCHANGED <<dropConst, uploading, toasts, earlier>>
  /\ UNCHANGED <<storeVars, planVars, deleteVars, timeoutVars, timestamp>>
  /\ UNCHANGED <<cancelledAtStart, variant, refreshing, fileSize, cancelled,
                 i, chunks, chunkVars, uploadedChunks, progress, status,
                 records, thrown>>

\* the insert returned without error: final progress update, return true
InsertOk ==
  /\ pcMain = "insert"
  /\ records' = Append(records,
       [file_size |-> fileSize,
        file_url |-> PublicUrl(FinalFileName(
                       FileName(userId, timestamp, fileExt), totalChunks))])
  /\ progress' = 100
  /\ status' = "complete"
  /\ earlier' = MapStatus(MapProgress(earlier, curName, 100), curName,
                          "complete")
  /\ pcMain' = "done"
  /\ storage_used' = TriggerInsert(storage_used, fileSize)
  /\ UNCHANGED <<dropConst, uploading, toasts>>
  /\ UNCHANGED <<uploadedBytes, storage, planVars, deleteVars, timeoutVars,
                 timestamp>>
  /\ UNCHANGED <<cancelledAtStart, variant, refreshing, fileSize, cancelled,
                 i, chunks, chunkVars, uploadedChunks, thrown,
                 cancelledAtIssue>>

\* fault injection: the chunk objects are removed before dbError is thrown
InsertFailsCleansUp ==
  /\ pcMain = "insert"
  /\ Throw(DbErr)
  /\ storage' = [k \in DOMAIN storage \ {chunks[c].fileName : c \in ChunkIdx}
                  |-> storage[k]]
  /\ UNCHANGED <<dropConst, uploading, toasts>>
  /\ UNCHANGED <<uploadedBytes, storage_used, planVars, deleteVars,
                 timeoutVars, timestamp>>
  /\ UNCHANGED <<cancelledAtStart, variant, refreshing, fileSize, cancelled,
                 i, chunks, chunkVars, uploadedChunks, progress, records,
                 cancelledAtIssue>>

\* the insert returned dbError: throw dbError
InsertFails ==
  /\ pcMain = "insert"
  /\ Throw(DbErr)
  /\ UNCHANGED <<dropConst, uploading, toasts>>
  /\ UNCHANGED <<storeVars, planVars, deleteVars, timeoutVars, timestamp>>
  /\ UNCHANGED <<cancelledAtStart, variant, refreshing, fileSize, cancelled,
                 i, chunks, chunkVars, uploadedChunks, progress, records,
                 cancelledAtIssue>>

(* ------------------------------ uploadChunk --------------------------- *)

\* the storage upload call of chunk c returned without error: the counter
\* and the progress entry are updated and the promise is fulfilled
UploadSucceeds(c) ==
  /\ ~Runnable
  /\ cst[c] = "uploading" /\ c \notin hung
  /\ CanStore(storage, chunks[c].fileName, Upsert(chunks[c].index))
  /\ storage' = Put(storage, chunks[c].fileName, StoredChunk(chunks[c]))
  /\ okCalls' = [okCalls EXCEPT ![c] = @ + 1]
  /\ uploadedChunks' = CountAfterCall(uploadedChunks, "ok")
  /\ progress' = ProgressAfter(uploadedChunks', totalChunks, c)
  /\ uploadedBytes' = UploadedBytes(variant, uploadedChunks', chunks)
  /\ earlier' = MapProgress(earlier, curName, progress')
  /\ cst' = [cst EXCEPT ![c] = "resolved"]
  /\ aborted' = [aborted EXCEPT ![c] = FALSE]
  /\ UNCHANGED <<dropConst, uploading, toasts>>
  /\ UNCHANGED <<storage_used, planVars, deleteVars, hung, timestamp>>
  /\ UNCHANGED <<cancelledAtStart, variant, refreshing, fileSize, cancelled,
                 pcMain, i, chunks, attempt, calls, fails, lastErr, waited,
                 reason, status, records, thrown, cancelledAtIssue>>

\* the storage upload call of chunk c failed, with an error result
\* (kind = "result") or a thrown exception (kind = "thrown"): the last
\* attempt rethrows, any other attempt starts the backoff timer
UploadFails(c, kind) ==
  /\ ~Runnable
  /\ cst[c] = "uploading" /\ c \notin hung
  /\ LET err == <<kind, attempt[c]>> IN
     /\ fails' = [fails EXCEPT ![c] = @ + 1]
     /\ lastErr' = [lastErr EXCEPT ![c] = err]
     /\ uploadedChunks' = CountAfterCall(uploadedChunks, kind)
     /\ IF IsLastAttempt(attempt[c])
          THEN /\ cst' = [cst EXCEPT ![c] = "rejected"]
               /\ reason' = [reason EXCEPT ![c] = err]
               /\ UNCHANGED waited
          ELSE /\ cst' = [cst EXCEPT ![c] = "backoff"]
               /\ waited' = [waited EXCEPT
                               ![c] = Append(@, RetryDelay(variant, attempt[c]))]
               /\ UNCHANGED reason
  /\ aborted' = [aborted EXCEPT ![c] = FALSE]
  /\ UNCHANGED <<dropConst, uploading, toasts, earlier>>
  /\ UNCHANGED <<storeVars, planVars, deleteVars, hung, timestamp>>
  /\ UNCHANGED <<cancelledAtStart, variant, refreshing, fileSize, cancelled,
                 pcMain, i, chunks, attempt, calls, okCalls, progress,
                 status, records, thrown, cancelledAtIssue>>

\* the backoff timer of chunk c fired: attempt++, the loop condition, the
\* cancellation check, and the next storage upload call
TimerFires(c) ==
  /\ ~Runnable
  /\ cst[c] = "backoff"
  /\ attempt' = [attempt EXCEPT ![c] = @ + 1]
  /\ IF ~(attempt[c] + 1 < MAX_RETRIES)
       THEN \* the loop ends and the function returns undefined
            /\ cst' = [cst EXCEPT ![c] = "resolved"]
            /\ UNCHANGED <<calls, reason>>
       ELSE IF AttemptCancelled(variant, cancelled, attempt[c] + 1)
       THEN /\ cst' = [cst EXCEPT ![c] = "rejected"]
            /\ reason' = [reason EXCEPT ![c] = CancelErr]
            /\ UNCHANGED calls
       ELSE /\ cst' = [cst EXCEPT ![c] = "uploading"]
            /\ calls' = [calls EXCEPT ![c] = @ + 1]
            /\ UNCHANGED reason
  /\ UNCHANGED <<dropConst, uploading, toasts, earlier>>
  /\ UNCHANGED <<storeVars, planVars, deleteVars, timeoutVars, timestamp>>
  /\ UNCHANGED <<cancelledAtStart, variant, refreshing, fileSize, cancelled,
                 pcMain, i, chunks, fails, okCalls, lastErr, waited,
                 uploadedChunks, progress, status, records, thrown,
                 cancelledAtIssue>>

(* ------------------------------ the user ------------------------------ *)

\* cancelUpload, the handler of the Cancel Upload button, which is rendered
\* while uploading: cancellationTokenRef.current.cancelled = true,
\* setUploading(false), toast
CancelUpload ==
  /\ ~Runnable
  /\ variant = "sliding"
  /\ uploading
  /\ pcMain \notin {"done", "failed"}
  /\ ~cancelled
  /\ cancelled' = TRUE
  /\ uploading' = FALSE
  /\ toasts' = toasts \cup {"Upload Cancelled"}
  /\ UNCHANGED <<dropConst, earlier>>
  /\ UNCHANGED <<storeVars, planVars, deleteVars, timeoutVars, timestamp>>
  /\ UNCHANGED <<cancelledAtStart, variant, refreshing, fileSize, pcMain, i,
                 chunks, chunkVars, uploadedChunks, progress, status,
                 records, thrown, cancelledAtIssue>>

(* ------------------------------ specification ------------------------- *)

Next ==
  \/ Begin
  \/ SlidingCancelled
  \/ SlidingAwaitSlot
  \/ SlidingDispatch
  \/ AwaitRejected
  \/ JoinResolved
  \/ JoinRejected
  \/ BatchStart
  \/ BatchSettled
  \/ SeqDispatch
  \/ SeqResume
  \/ Finalize
  \/ InsertOk
  \/ InsertFails
  \/ \E c \in ChunkIdx : UploadSucceeds(c)
  \/ \E c \in ChunkIdx : \E kind \in {"result", "thrown"} : UploadFails(c, kind)
  \/ \E c \in ChunkIdx : TimerFires(c)
  \/ CancelUpload

Spec == Init /\ [][Next]_vars

(* ------------------------------ a transport that hangs ---------------- *)

\* the storage upload call of chunk c that is in flight will never return
CallHangs(c) ==
  /\ ~Runnable
  /\ cst[c] = "uploading" /\ c \notin hung
  /\ hung' = hung \cup {c}
  /\ UNCHANGED <<dropConst, uploading, toasts, earlier>>
  /\ UNCHANGED <<storeVars, planVars, deleteVars, aborted, timestamp>>
  /\ UNCHANGED <<cancelledAtStart, variant, refreshing, fileSize, cancelled,
                 pcMain, i, chunks, chunkVars, uploadedChunks, progress,
                 status, records, thrown, cancelledAtIssue>>

\* setTimeout(() => controller.abort(), CONNECTION_TIMEOUT) fired while the
\* call of chunk c is in flight.  controller.signal is passed to nothing, so
\* the abort reaches no one: the call and the retry loop are where they were.
TimeoutFires(c) ==
  /\ ~Runnable
  /\ cst[c] = "uploading" /\ ~aborted[c]
  /\ aborted' = [aborted EXCEPT ![c] = TRUE]
  /\ UNCHANGED <<dropConst, uploading, toasts, earlier>>
  /\ UNCHANGED <<storeVars, planVars, deleteVars, hung, timestamp>>
  /\ UNCHANGED <<cancelledAtStart, variant, refreshing, fileSize, cancelled,
                 pcMain, i, chunks, chunkVars, uploadedChunks, progress,
                 status, records, thrown, cancelledAtIssue>>

InitTimeout == Init /\ variant = "sliding"

NextTimeout ==
  \/ Begin
  \/ SlidingCancelled
  \/ SlidingAwaitSlot
  \/ SlidingDispatch
  \/ AwaitRejected
  \/ JoinResolved
  \/ JoinRejected
  \/ Finalize
  \/ InsertOk
  \/ InsertFails
  \/ \E c \in ChunkIdx : UploadSucceeds(c)
  \/ \E c \in ChunkIdx : \E kind \in {"result", "thrown"} : UploadFails(c, kind)
  \/ \E c \in ChunkIdx : TimerFires(c)
  \/ CancelUpload
  \/ \E c \in ChunkIdx : CallHangs(c)
  \/ \E c \in ChunkIdx : TimeoutFires(c)

SpecTimeout == InitTimeout /\ [][NextTimeout]_vars

(* ------------------------------ FileUpload: onDrop -------------------- *)

FileNames == {"a.ext", "b.ext"}

\* a dropped file of one chunk, and one of two chunks more than the window
\* holds, so that the dispatch loop comes round again after a slot was awaited
SmallFile == CHUNK_SIZE

BigFile == (MAX_CONCURRENT_UPLOADS + 1) * CHUNK_SIZE + 1

DropFiles == [name : FileNames, size : {SmallFile, BigFile}]

\* the dropped batches; file names matter only by being equal or different,
\* so the first file is always called a.ext
Batches ==
  {b \in UNION {[1..n -> DropFiles] : n \in 0..MaxBatch} :
     b # <<>> => b[1].name = "a.ext"}

\* the profile snapshots: none, an empty account, and one that a big file
\* overfills by one byte
Profiles ==
  {NoProfile} \cup
  {[present |-> TRUE, storage_used |-> u,
    storage_limit |-> BigFile + SmallFile] : u \in {0, SmallFile + 1}}

RECURSIVE SumSizes(_)
\* acceptedFiles.reduce((sum, file) => sum + file.size, 0)
SumSizes(files) ==
  IF files = <<>> THEN 0 ELSE files[1].size + SumSizes(Tail(files))

\* fault injection: the quota test forgets what is already stored
OverLimitIgnoringUsed(used, total, limit) == total > limit

\* if (currentUsed + totalSize > limit)
OverLimit(used, total, limit) == used + total > limit

\* onDrop catch: if (!error.message.includes('cancelled')) toast Upload Failed
FailureToast(err) == IF err[1] = "cancelled" THEN {} ELSE {"Upload Failed"}

\* uploadProgress as the component holds it
Entries ==
  IF status = "none" THEN earlier
  ELSE Append(earlier, [fileName |-> curName, progress |-> progress,
                        status |-> status])

\* the component before a drop, for profiles P and dropped batches B
InitDropFrom(P, B) ==
  /\ variant = "sliding"
  /\ fileSize = 0
  /\ cancelled = FALSE
  /\ pcMain = "idle"
  /\ i = 0
  /\ chunks = <<>>
  /\ cst = <<>> /\ attempt = <<>> /\ calls = <<>> /\ fails = <<>>
  /\ okCalls = <<>> /\ lastErr = <<>> /\ waited = <<>> /\ reason = <<>>
  /\ uploadedChunks = 0
  /\ progress = 0
  /\ status = "none"
  /\ records = <<>>
  /\ thrown = NoErr
  /\ cancelledAtStart = FALSE
  /\ cancelledAtIssue = FALSE
  /\ timestamp = 0
  /\ clock = 1
  /\ plan1 = <<>>
  /\ plan2 = <<>>
  /\ hung = {}
  /\ aborted = <<>>
  /\ user \in BOOLEAN
  /\ userProfile \in P
  /\ batch \in B
  /\ cur = 0
  /\ pcDrop = "idle"
  /\ uploading = FALSE
  /\ toasts = {}
  /\ earlier = <<>>
  /\ curName = "none"
  /\ clearPending = FALSE
  /\ uploadedBytes = 0
  /\ storage = <<>>
  /\ storage_used = 0
  /\ pcDelete = "idle"
  /\ delId = 0
  /\ refreshing = FALSE

InitDrop == InitDropFrom(Profiles, Batches)

\* onDrop up to the loop: the sign-in test, the quota test, then
\* setUploading(true), setUploadProgress([]) and a fresh cancellation token
OnDrop ==
  /\ pcDrop = "idle"
  /\ IF ~user \/ ~userProfile.present
       THEN /\ toasts' = toasts \cup {"Authentication Required"}
            /\ pcDrop' = "rejected"
            /\ UNCHANGED <<uploading, earlier, cancelled, status, progress>>
       ELSE IF OverLimit(userProfile.storage_used, SumSizes(batch),
                         userProfile.storage_limit)
       THEN /\ toasts' = toasts \cup {"Storage Limit Exceeded"}
            /\ pcDrop' = "rejected"
            /\ UNCHANGED <<uploading, earlier, cancelled, status, progress>>
       ELSE /\ uploading' = TRUE
            /\ earlier' = <<>>
            /\ status' = "none"
            /\ progress' = 0
            /\ cancelled' = FALSE
            /\ pcDrop' = "running"
            /\ UNCHANGED toasts
  /\ UNCHANGED <<user, userProfile, batch, cur, curName, clearPending>>
  /\ UNCHANGED <<storeVars, planVars, deleteVars, timeoutVars, timestamp>>
  /\ UNCHANGED <<cancelledAtStart, variant, refreshing, fileSize, pcMain, i,
                 chunks, chunkVars, uploadedChunks, records, thrown,
                 cancelledAtIssue>>

\* fault injection: the call is not awaited, the loop goes on as soon as
\* uploadFileInChunks is suspended at one of its own awaits
CallReturnedAtFirstAwait(pc) ==
  pc \in {"idle", "done", "waitSlot", "join", "insert"}

\* await uploadFileInChunks(...): the loop goes on when the promise of the
\* call is fulfilled (or before the first call)
CallReturned(pc) == pc \in {"idle", "done"}

\* the loop over acceptedFiles, not cancelled: uploadFileInChunks is called
\* for the next file (after the previous call returned)
DropNextFile ==
  /\ pcDrop = "running" /\ CallReturned(pcMain)
  /\ ~cancelled /\ cur < Len(batch)
  /\ LET f == batch[cur + 1]
         idx == 0..(TotalChunks(f.size) - 1)
     IN /\ cur' = cur + 1
        /\ curName' = f.name
        /\ fileSize' = f.size
        /\ earlier' = Entries
        /\ cst' = [c \in idx |-> "idle"]
        /\ attempt' = [c \in idx |-> 0]
        /\ calls' = [c \in idx |-> 0]
        /\ fails' = [c \in idx |-> 0]
        /\ okCalls' = [c \in idx |-> 0]
        /\ lastErr' = [c \in idx |-> NoErr]
        /\ waited' = [c \in idx |-> <<>>]
        /\ reason' = [c \in idx |-> NoErr]
        /\ aborted' = [c \in idx |-> FALSE]
  /\ pcMain' = "start"
  /\ i' = 0
  /\ chunks' = <<>>
  /\ uploadedChunks' = 0
  /\ progress' = 0
  /\ status' = "none"
  /\ thrown' = NoErr
  /\ timestamp' = 0
  /\ cancelledAtStart' = cancelled
  /\ cancelledAtIssue' = FALSE
  /\ UNCHANGED <<user, userProfile, batch, pcDrop, uploading, toasts,
                 clearPending>>
  /\ uploadedBytes' = 0
  /\ UNCHANGED <<storage, storage_used>>
  /\ UNCHANGED <<planVars, deleteVars, hung, variant, refreshing, cancelled,
                 records>>

\* the loop ended (no file left, or break on cancellation): unless cancelled
\* the success toast, onUploadComplete() (handleUploadComplete starts
\* fetchFiles and refreshProfile) and the timer that clears the progress
\* list; finally setUploading(false)
DropLoopEnd ==
  /\ pcDrop = "running" /\ CallReturned(pcMain)
  /\ cancelled \/ cur = Len(batch)
  /\ toasts' = IF cancelled THEN toasts ELSE toasts \cup {"UPLOAD COMPLETE"}
  /\ refreshing' = (refreshing \/ ~cancelled)
  /\ clearPending' = ~cancelled
  /\ uploading' = FALSE
  /\ pcDrop' = "finished"
  /\ UNCHANGED <<user, userProfile, batch, cur, earlier, curName>>
  /\ UNCHANGED <<storeVars, planVars, deleteVars, timeoutVars, timestamp>>
  /\ UNCHANGED <<cancelledAtStart, variant, fileSize, cancelled, pcMain, i,
                 chunks, chunkVars, uploadedChunks, progress, status, records,
                 thrown, cancelledAtIssue>>

\* fault injection: the rejection is caught inside the loop, which goes on
DropCatchContinues ==
  /\ pcDrop = "running" /\ pcMain = "failed"
  /\ toasts' = toasts \cup FailureToast(thrown)
  /\ pcMain' = "idle"
  /\ UNCHANGED <<user, userProfile, batch, cur, earlier, curName,
                 clearPending, pcDrop, uploading>>
  /\ UNCHANGED <<storeVars, planVars, deleteVars, timeoutVars, timestamp>>
  /\ UNCHANGED <<cancelledAtStart, variant, refreshing, fileSize, cancelled, i,
                 chunks, chunkVars, uploadedChunks, progress, status, records,
                 thrown, cancelledAtIssue>>

\* uploadFileInChunks rejected: the catch block and finally
DropCatch ==
  /\ pcDrop = "running" /\ pcMain = "failed"
  /\ toasts' = toasts \cup FailureToast(thrown)
  /\ uploading' = FALSE
  /\ pcDrop' = "finished"
  /\ UNCHANGED <<user, userProfile, batch, cur, earlier, curName,
                 clearPending>>
  /\ UNCHANGED <<storeVars, planVars, deleteVars, timeoutVars, timestamp>>
  /\ UNCHANGED <<cancelledAtStart, variant, refreshing, fileSize, cancelled,
                 pcMain, i, chunks, chunkVars, uploadedChunks, progress,
                 status, records, thrown, cancelledAtIssue>>

\* setTimeout(() => setUploadProgress([]), 3000) fired
ClearProgress ==
  /\ ~Runnable
  /\ clearPending
  /\ clearPending' = FALSE
  /\ earlier' = <<>>
  /\ status' = "none"
  /\ progress' = 0
  /\ UNCHANGED <<user, userProfile, batch, cur, pcDrop, uploading, toasts,
                 curName>>
  /\ UNCHANGED <<storeVars, planVars, deleteVars, timeoutVars, timestamp>>
  /\ UNCHANGED <<cancelledAtStart, variant, refreshing, fileSize, cancelled,
                 pcMain, i, chunks, chunkVars, uploadedChunks, records,
                 thrown, cancelledAtIssue>>

\* refreshProfile() of handleUploadComplete returned: the profile prop of
\* FileUpload now shows the storage_used the database holds
RefreshProfile ==
  /\ ~Runnable
  /\ refreshing
  /\ refreshing' = FALSE
  /\ userProfile' = [userProfile EXCEPT !.storage_used = storage_used]
  /\ UNCHANGED <<user, batch, cur, pcDrop, uploading, toasts, curName,
                 clearPending, earlier>>
  /\ UNCHANGED <<storeVars, planVars, deleteVars, timeoutVars, timestamp>>
  /\ UNCHANGED <<cancelledAtStart, variant, fileSize, cancelled, pcMain, i,
                 chunks, chunkVars, uploadedChunks, progress, status, records,
                 thrown, cancelledAtIssue>>

\* one invocation of onDrop, with the profile prop it was rendered with (the
\* refresh it may start lands after it returned, see SpecQuota)
NextDrop ==
  \/ OnDrop
  \/ DropNextFile
  \/ DropLoopEnd
  \/ DropCatch
  \/ ClearProgress
  \/ Begin
  \/ SlidingCancelled
  \/ SlidingAwaitSlot
  \/ SlidingDispatch
  \/ AwaitRejected
  \/ JoinResolved
  \/ JoinRejected
  \/ Finalize
  \/ InsertOk
  \/ InsertFails
  \/ \E c \in ChunkIdx : UploadSucceeds(c)
  \/ \E c \in ChunkIdx : \E kind \in {"result", "thrown"} : UploadFails(c, kind)
  \/ \E c \in ChunkIdx : TimerFires(c)
  \/ CancelUpload

SpecDrop == InitDrop /\ [][NextDrop]_vars

(* ------------------------------ planning a file twice ----------------- *)

\* lines 24-58 of one invocation: the timestamp it read and the chunks it built
Plan(size, ts) ==
  [timestamp |-> ts, chunks |-> PlanChunks(size, FileName(userId, ts, fileExt))]

InitPlan == Init /\ variant = "sliding" /\ ~cancelled

\* a first invocation of uploadFileInChunks plans the file
PlanFirst ==
  /\ plan1 = <<>>
  /\ plan1' = <<Plan(fileSize, clock)>>
  /\ UNCHANGED <<dropConst, uploading, toasts, earlier>>
  /\ UNCHANGED <<storeVars, deleteVars, clock, plan2, timeoutVars, timestamp>>
  /\ UNCHANGED <<cancelledAtStart, variant, refreshing, fileSize, cancelled,
                 pcMain, i, chunks, chunkVars, uploadedChunks, progress,
                 status, records, thrown, cancelledAtIssue>>

\* a second invocation plans the same file for the same user
PlanSecond ==
  /\ plan1 # <<>> /\ plan2 = <<>>
  /\ plan2' = <<Plan(fileSize, clock)>>
  /\ UNCHANGED <<dropConst, uploading, toasts, earlier>>
  /\ UNCHANGED <<storeVars, deleteVars, clock, plan1, timeoutVars, timestamp>>
  /\ UNCHANGED <<cancelledAtStart, variant, refreshing, fileSize, cancelled,
                 pcMain, i, chunks, chunkVars, uploadedChunks, progress,
                 status, records, thrown, cancelledAtIssue>>

\* a millisecond passes
ClockTick ==
  /\ clock < MaxClock
  /\ clock' = clock + 1
  /\ UNCHANGED <<dropConst, uploading, toasts, earlier>>
  /\ UNCHANGED <<storeVars, deleteVars, plan1, plan2, timeoutVars, timestamp>>
  /\ UNCHANGED <<cancelledAtStart, variant, refreshing, fileSize, cancelled,
                 pcMain, i, chunks, chunkVars, uploadedChunks, progress,
                 status, records, thrown, cancelledAtIssue>>

NextPlan ==
  \/ PlanFirst
  \/ PlanSecond
  \/ ClockTick

SpecPlan == InitPlan /\ [][NextPlan]_vars

(* ------------------------------ properties ---------------------------- *)

Finished == pcMain \in {"done", "failed"}

Committed == status = "complete" \/ records # <<>>

\* C1: in every version, the status becomes 'complete' and the user_files
\* record is inserted only if every chunk index 0..totalChunks-1 had a
\* storage upload call that returned without error.
C1_CompleteOnlyIfAllChunksSucceeded ==
  Committed => \A c \in ChunkIdx : okCalls[c] >= 1

\* C2: if the cancellation flag is set when the user_files insert is issued
\* (so it was set at some moment before), no record is inserted and the status
\* does not become 'complete'.  Stated for files with at least one chunk, where
\* the flag is polled at least once.
C2_CancelledNeverFinalized ==
  (totalChunks >= 1 /\ cancelledAtIssue) => ~Committed

\* C3: if the cancellation flag is already set when uploadFileInChunks starts,
\* then for every file size no storage upload call is made, no record is
\* inserted, and the task ends with status 'cancelled'.
C3_CancelledAtStart ==
  cancelledAtStart =>
    /\ \A c \in ChunkIdx : calls[c] = 0
    /\ records = <<>>
    /\ Finished => status = "cancelled"

NoNewCallStep ==
  (variant = "sliding" /\ cancelled) =>
    /\ calls' = calls
    /\ \A c \in ChunkIdx :
         cst[c] = "uploading" =>
           \/ cst'[c] = "uploading"
           \/ okCalls'[c] = okCalls[c] + 1
           \/ fails'[c] = fails[c] + 1

\* C4: sliding window: once the cancellation flag is set, no step starts a
\* storage upload call (no first attempt, no retry); calls in flight at that
\* moment stay in flight until they return.
C4_NoNewCallAfterCancel == [][NoNewCallStep]_vars

\* after a mid-run cancellation a chunk that was waiting for a slot was never
\* sent, a retry that was due was not made, and a call in flight had resolved
C4_Witness ==
  /\ variant = "sliding" /\ cancelled /\ ~cancelledAtStart
  /\ \E c \in ChunkIdx :
       cst[c] = "rejected" /\ reason[c] = CancelErr /\ calls[c] = 0
  /\ \E c \in ChunkIdx :
       cst[c] = "rejected" /\ reason[c] = CancelErr /\ fails[c] >= 1
  /\ \E c \in ChunkIdx : cst[c] = "resolved"

\* C5: sliding window: at most MAX_CONCURRENT_UPLOADS chunks have their
\* uploadChunk call started and not settled.
C5_BoundedInFlight ==
  variant = "sliding" => Cardinality(InFlight) <= MAX_CONCURRENT_UPLOADS

\* the window was refilled once, is full again, and the dispatch loop waits
C5_Witness ==
  /\ variant = "sliding"
  /\ Cardinality(InFlight) = MAX_CONCURRENT_UPLOADS
  /\ pcMain = "waitSlot"
  /\ i > MAX_CONCURRENT_UPLOADS

ProgressStep ==
  variant \in {"sliding", "batch"} =>
    /\ progress' >= progress
    /\ progress' \in 0..100
    /\ status' = "complete" => progress' = 100

C7_RetrySuccess ==
  /\ \A c \in ChunkIdx :
       /\ okCalls[c] >= 1 => cst[c] = "resolved"
       /\ cst[c] = "resolved" =>
            /\ okCalls[c] = 1
            /\ fails[c] < MAX_RETRIES
            /\ calls[c] = fails[c] + 1
            /\ attempt[c] = fails[c]
  /\ uploadedChunks = Cardinality({c \in ChunkIdx : cst[c] = "resolved"})

\* a chunk succeeded on its last permitted attempt
C7_Witness ==
  \E c \in ChunkIdx :
    /\ cst[c] = "resolved"
    /\ fails[c] = MAX_RETRIES - 1
    /\ calls[c] = MAX_RETRIES

\* C8: a chunk all of whose storage upload calls fail, without cancellation,
\* makes exactly MAX_RETRIES calls (attempts 0..MAX_RETRIES-1) and rejects
\* with the error of the last attempt; it never resolves.
C8_RetryExhaustion ==
  \A c \in ChunkIdx :
    /\ calls[c] <= MAX_RETRIES
    /\ fails[c] = MAX_RETRIES =>
         /\ cst[c] = "rejected"
         /\ calls[c] = MAX_RETRIES
         /\ okCalls[c] = 0
         /\ reason[c] = lastErr[c]
         /\ reason[c][2] = MAX_RETRIES - 1
    /\ (cst[c] = "rejected" /\ reason[c] # CancelErr) => fails[c] = MAX_RETRIES
    /\ (okCalls[c] = 0 /\ ~cancelled /\ cst[c] = "backoff") => fails[c] < MAX_RETRIES
    /\ (okCalls[c] = 0 /\ cst[c] = "resolved") => FALSE

\* a chunk exhausted its attempts and nobody cancelled
C8_Witness ==
  /\ ~cancelled
  /\ \E c \in ChunkIdx :
       cst[c] = "rejected" /\ fails[c] = MAX_RETRIES /\ reason[c][1] = "thrown"

\* C9: uploadChunk (sliding window): after attempt k failed with
\* k < MAX_RETRIES-1 the wait is RETRY_DELAY_BASE * 2^k, whatever the kind of
\* failure; after the final attempt failed there is no wait.
C9_BackoffAfterFailure ==
  variant = "sliding" =>
    \A c \in ChunkIdx :
      /\ Len(waited[c]) = Min(fails[c], MAX_RETRIES - 1)
      /\ \A k \in 0..(Len(waited[c]) - 1) :
           waited[c][k + 1] = RETRY_DELAY_BASE * Pow(2, k)

\* a chunk failed on every attempt, once with an error result and once with
\* an exception among them, and waited after all but the last
C9_Witness ==
  /\ variant = "sliding"
  /\ \E c \in ChunkIdx :
       /\ fails[c] = MAX_RETRIES
       /\ Len(waited[c]) = MAX_RETRIES - 1
       /\ reason[c][1] = "result"

\* C10 as stated: the delay that immediately precedes attempt i >= 1 is
\* RETRY_DELAY_BASE * 2^i.
C10_DelayBeforeAttemptAsStated ==
  variant = "sliding" =>
    \A c \in ChunkIdx :
      (cst[c] = "uploading" /\ attempt[c] >= 1) =>
        /\ Len(waited[c]) = attempt[c]
        /\ waited[c][attempt[c]] = RETRY_DELAY_BASE * Pow(2, attempt[c])

\* C10 amended: the delay that immediately precedes attempt i >= 1 is
\* RETRY_DELAY_BASE * 2^(i-1) in the sliding-window and sequential versions
\* (and RETRY_DELAY_BASE * 1.5^(i-1) in the fixed-batch version).
C10_DelayBeforeAttempt ==
  \A c \in ChunkIdx :
    (cst[c] = "uploading" /\ attempt[c] >= 1) =>
      /\ Len(waited[c]) = attempt[c]
      /\ waited[c][attempt[c]] =
           IF variant = "batch"
             THEN (RETRY_DELAY_BASE * Pow(3, attempt[c] - 1))
                    \div Pow(2, attempt[c] - 1)
             ELSE RETRY_DELAY_BASE * Pow(2, attempt[c] - 1)

\* the last permitted attempt is in flight: two delays preceded it
C10_Witness ==
  /\ variant = "sliding"
  /\ \E c \in ChunkIdx :
       cst[c] = "uploading" /\ attempt[c] = MAX_RETRIES - 1

(* ------------------------------ chunk planning ------------------------ *)

Planned == pcMain # "start"

NumChunks == Cardinality(DOMAIN chunks)

\* C12: for every file size, the chunks array has the dense indices
\* 0..N-1, chunk c spans [c*CHUNK_SIZE, min((c+1)*CHUNK_SIZE, size)), the
\* ranges are contiguous, do not overlap and cover exactly [0, size), and
\* N = max(1, ceil(size / CHUNK_SIZE)).
C12_PlanCoversFile ==
  Planned =>
    /\ DOMAIN chunks = 0..(NumChunks - 1)
    /\ \A c \in DOMAIN chunks :
         /\ chunks[c].index = c
         /\ chunks[c].start = c * CHUNK_SIZE
         /\ chunks[c].end = Min((c + 1) * CHUNK_SIZE, fileSize)
         /\ chunks[c].size = chunks[c].end - chunks[c].start
         /\ (c + 1) \in DOMAIN chunks => chunks[c].end = chunks[c + 1].start
    /\ \A b \in 0..(fileSize - 1) :
         Cardinality({c \in DOMAIN chunks :
                        chunks[c].start <= b /\ b < chunks[c].end}) = 1
    /\ \A c \in DOMAIN chunks : chunks[c].end <= fileSize
    /\ \/ NumChunks = 1 /\ fileSize <= CHUNK_SIZE
       \/ /\ NumChunks > 1
          /\ (NumChunks - 1) * CHUNK_SIZE < fileSize
          /\ fileSize <= NumChunks * CHUNK_SIZE

\* C13: a zero-byte file is planned as exactly one chunk of size 0, that
\* chunk is sent to storage, and the upload ends with one user_files record
\* whose file_size is 0.
C13_ZeroByteFile ==
  fileSize = 0 =>
    /\ Planned => DOMAIN chunks = {0} /\ chunks[0].size = 0
    /\ pcMain = "done" =>
         /\ 0 \in DOMAIN calls /\ calls[0] >= 1
         /\ Len(records) = 1 /\ records[1].file_size = 0

\* C14: a file of one chunk stores it under the base key
\* userId/timestamp.ext; a file of several chunks stores every chunk c,
\* chunk 0 included, under base + '.part' + c; the keys of a file's chunks
\* are pairwise distinct.
C14_ObjectKeys ==
  Planned =>
    LET base == <<userId, "/", timestamp, ".", fileExt>> IN
    /\ NumChunks = 1 => chunks[0].fileName = base
    /\ NumChunks > 1 =>
         \A c \in DOMAIN chunks : chunks[c].fileName = base \o <<".part", c>>
    /\ \A c, d \in DOMAIN chunks :
         c # d => chunks[c].fileName # chunks[d].fileName

\* a file of several chunks has been planned
C14_Witness == Planned /\ NumChunks >= 3 /\ timestamp = clock

PlannedTwice == plan1 # <<>> /\ plan2 # <<>>

NoFailure == (\A c \in ChunkIdx : fails[c] = 0) /\ thrown # DbErr

\* C16: in the sequential version, when nothing fails, a file of N >= 1
\* chunks is uploaded one chunk at a time in index order with one storage
\* upload call per chunk, the upload goes on until it ends with status
\* 'complete', and then exactly one user_files record exists, with the
\* file's size and the URL of chunk 0's key (base + '.part0' when N > 1,
\* the base key when N = 1).
C16_SequentialNoFailure ==
  (variant = "sequential" /\ totalChunks >= 1 /\ NoFailure) =>
    LET base == <<userId, "/", timestamp, ".", fileExt>> IN
    /\ Cardinality(InFlight) <= 1
    /\ \A c \in ChunkIdx :
         /\ calls[c] <= 1
         /\ calls[c] = 1 => \A d \in 0..(c - 1) : cst[d] = "resolved"
    /\ pcMain # "failed"
    /\ pcMain # "done" => ENABLED Next
    /\ pcMain = "done" =>
         /\ status = "complete"
         /\ \A c \in ChunkIdx : calls[c] = 1 /\ okCalls[c] = 1
         /\ Len(records) = 1
         /\ records[1].file_size = fileSize
         /\ records[1].file_url = PublicUrl(chunks[0].fileName)
         /\ chunks[0].fileName =
              IF totalChunks > 1 THEN base \o <<".part", 0>> ELSE base

\* a sequential upload of several chunks ended without any failure
C16_Witness ==
  /\ variant = "sequential" /\ totalChunks >= 3 /\ NoFailure
  /\ pcMain = "done"

(* ------------------------------ the fixed-batch version ---------------- *)

\* the first indices of the batches of the file
BatchStarts == {from \in ChunkIdx : from % batchSize = 0}

\* every chunk of the batch starting at from settled, and the rejected ones
\* are strictly more than half of the batch
MostlyFailed(from) ==
  /\ \A c \in Batch(from) : Settled(c)
  /\ 2 * Cardinality(Batch(from) \cap Rejected) > Cardinality(Batch(from))

C11_TimeoutEndsAttempt ==
  /\ \A c \in ChunkIdx : aborted[c] => cst[c] # "uploading"
  /\ ~(ENABLED NextTimeout) => Finished /\ InFlight = {}

(* ------------------------------ dropped batches ------------------------ *)

\* there is no user or profile, or the batch does not fit the quota
Unacceptable ==
  \/ ~user
  \/ ~userProfile.present
  \/ userProfile.storage_used + SumSizes(batch) > userProfile.storage_limit

\* C17: when onDrop is called without a user or profile, or with files
\* whose sizes add up to more than storage_limit - storage_used, the batch
\* is rejected before any file is planned: uploadFileInChunks is never
\* called, so there is no storage upload call, no user_files insert and no
\* progress entry, and uploading stays false.
C17_QuotaPreflight ==
  (pcDrop # "idle" /\ Unacceptable) =>
    /\ pcDrop = "rejected"
    /\ cur = 0 /\ pcMain = "idle" /\ chunks = <<>>
    /\ calls = <<>> /\ okCalls = <<>>
    /\ records = <<>>
    /\ Entries = <<>>
    /\ ~uploading
    /\ toasts \subseteq {"Authentication Required", "Storage Limit Exceeded"}

\* a batch that overfills the quota by one byte was dropped and rejected
C17_Witness ==
  /\ pcDrop = "rejected" /\ user /\ userProfile.present
  /\ batch # <<>>
  /\ userProfile.storage_used + SumSizes(batch) = userProfile.storage_limit + 1

\* C19: an upload during which the user pressed Cancel and which then ended
\* by rejecting has the status 'cancelled', and onDrop shows no
\* 'Upload Failed' toast for it, however the storage upload calls that were
\* in flight at the request end.
C19_CancelledNotError ==
  (pcDrop = "finished" /\ pcMain = "failed" /\ cancelled /\ thrown # DbErr) =>
    /\ status = "cancelled"
    /\ "Upload Failed" \notin toasts

Terminal == {"complete", "cancelled", "error"}

\* a step leaves the terminal status of every progress entry as it is, and
\* takes 'uploading' only to itself or to a terminal status
StatusStep ==
  \A k \in DOMAIN Entries :
    k \in DOMAIN Entries' =>
      /\ Entries[k].status \in Terminal =>
           Entries'[k].status = Entries[k].status
      /\ Entries[k].status = "uploading" =>
           Entries'[k].status \in {"uploading"} \cup Terminal

\* C20: the status of a progress entry moves only from 'uploading' to
\* 'complete', 'cancelled' or 'error'; once it is one of these, no later
\* step (a late chunk completion, a later file of the batch) changes it.
C20_StatusMonotone == [][StatusStep]_vars

(* ------------------------------ sequential: a chunk fails for good ----- *)

\* C23: in the sequential version, once the promise of a chunk rejected no
\* storage upload call was started for a later chunk, no record was inserted,
\* and the function is about to reach or has reached its catch block, which
\* sets the status 'error' and rethrows the chunk's error.
C23_SequentialAbort ==
  \A c \in ChunkIdx :
    (variant = "sequential" /\ cst[c] = "rejected") =>
      /\ fails[c] = MAX_RETRIES
      /\ \A d \in ChunkIdx : d > c => calls[d] = 0
      /\ records = <<>>
      /\ \/ pcMain = "waitChunk" /\ i = c /\ status = "uploading"
         \/ pcMain = "failed" /\ status = "error" /\ thrown = reason[c]

\* a chunk that is not the last one failed for good and the task has ended
C23_Witness ==
  /\ variant = "sequential" /\ pcMain = "failed"
  /\ \E c \in ChunkIdx : cst[c] = "rejected" /\ c + 1 < totalChunks

(* ------------------------------ sliding window: refill ---------------- *)

\* C22: in the sliding-window version, while chunks remain to be dispatched,
\* cancellation is not requested and no chunk has failed, a chunk that
\* finished is replaced at once by the next queued chunk: whenever the
\* dispatch loop is suspended on a slot, MAX_CONCURRENT_UPLOADS chunks are in
\* flight.
C22_SlidingRefill ==
  (/\ variant = "sliding" /\ pcMain = "waitSlot"
   /\ ~cancelled /\ ~Runnable /\ Rejected = {})
    => Cardinality(InFlight) = MAX_CONCURRENT_UPLOADS

(* ------------------------------ what a record refers to --------------- *)

\* C29: the file_url of every inserted record is the public URL of the
\* object key of a chunk of this upload for which a storage upload call
\* returned without error.
C29_ReferentialIntegrity ==
  \A k \in 1..Len(records) :
    \E c \in ChunkIdx :
      /\ okCalls[c] >= 1
      /\ records[k].file_url = PublicUrl(chunks[c].fileName)

(* ------------------------------ the files of a batch ------------------ *)

\* a step in which onDrop calls uploadFileInChunks for the next file: the
\* call for the file before it has returned with its record inserted, none
\* of that file's chunks is in flight, and nothing was uploaded yet for the
\* new file
FileSwitchStep ==
  cur' # cur =>
    /\ cur' = cur + 1
    /\ InFlight = {}
    /\ \A c \in ChunkIdx : cst[c] = "resolved"
    /\ cur > 0 => pcMain = "done" /\ status = "complete" /\ Len(records) = cur
    /\ records' = records
    /\ \A c \in DOMAIN calls' : calls'[c] = 0 /\ cst'[c] = "idle"

\* C21: the files of a batch are uploaded one after the other: the upload of
\* a file starts only when the pipeline of the file before it has completed
\* and left no chunk upload in flight.
C21_FilesSequential == [][FileSwitchStep]_vars

\* chunks of the second file of a batch are in flight
C21_Witness == pcDrop = "running" /\ cur = 2 /\ InFlight # {}

\* a step taken after the current file ended as 'error' or 'cancelled': no
\* later file is started, the records stay as they are (one per earlier
\* file), and onDrop has ended with uploading reset
AfterFailureStep ==
  status \in {"error", "cancelled"} =>
    /\ cur' = cur
    /\ records' = records /\ Len(records) = cur - 1
    /\ pcDrop' = "finished" /\ ~uploading'

\* C28: when a file of a batch ends as 'error' or 'cancelled', onDrop starts
\* no later file, the records of the earlier files stay committed and
\* uploading is reset to false.
C28_BatchStopsAtFailure == [][AfterFailureStep]_vars

\* the first of two files failed, onDrop has ended and the upload's late
\* chunks have settled
C28_Witness ==
  /\ pcDrop = "finished" /\ status = "error"
  /\ cur = 1 /\ Len(batch) = 2 /\ InFlight = {}

\* a file pipeline started by onDrop has work left: the function has not
\* returned or chunk uploads are in flight
PipelineRunning ==
  \/ pcMain \in {"start", "loop", "waitSlot", "join", "finalize", "insert"}
  \/ InFlight # {}

\* C30: while a file pipeline started by onDrop is running, uploading is
\* true (so the dropzone is disabled and no second batch can start).
C30_OneBatchActive == PipelineRunning => uploading

(* ------------------------------ the throughput figure ----------------- *)

\* the chunks for which a storage upload call returned without error
Completed == {c \in ChunkIdx : okCalls[c] >= 1}

RECURSIVE SizeOf(_)
\* the sum of the sizes of the chunks of S
SizeOf(S) ==
  IF S = {} THEN 0
  ELSE LET c == CHOOSE x \in S : TRUE
       IN chunks[c].size + SizeOf(S \ {c})

\* C26: after a progress update, uploadedBytes is the sum of the sizes of
\* the chunks completed so far: it never exceeds file.size and it equals
\* file.size once every chunk has completed.
C26_BytesTransferred ==
  uploadedChunks > 0 =>
    /\ uploadedBytes = SizeOf(Completed)
    /\ uploadedBytes <= fileSize
    /\ Completed = ChunkIdx => uploadedBytes = fileSize

(* ------------------------------ the insert fails ---------------------- *)

\* the object of every chunk is in the bucket, as its upload call left it
AllChunksStored ==
  \A c \in ChunkIdx :
    /\ chunks[c].fileName \in DOMAIN storage
    /\ storage[chunks[c].fileName] = StoredChunk(chunks[c])

\* C24: when the user_files insert fails after every chunk was uploaded,
\* uploadFileInChunks rejects with the database error, the status is 'error',
\* no record exists, and the chunk objects are still in the bucket.
C24_InsertFailure ==
  (thrown = DbErr /\ Completed = ChunkIdx) =>
    /\ pcMain = "failed"
    /\ status = "error"
    /\ records = <<>>
    /\ storage_used = 0
    /\ AllChunksStored

\* the insert failed for a file of several chunks
C24_Witness ==
  thrown = DbErr /\ Completed = ChunkIdx /\ totalChunks >= 2

(* ------------------------------ a bucket that is not empty ------------ *)

\* an object that was in the bucket before this upload started
EarlierObject == [by |-> "earlier", index |-> 0, size |-> 0]

\* the keys the upload is going to use, when it starts at time ts
PlanKeys(size, ts) ==
  LET p == PlanChunks(size, FileName(userId, ts, fileExt))
  IN {p[c].fileName : c \in DOMAIN p}

\* the sliding-window upload of a file, started on a bucket where at most one
\* of its keys holds an object already
InitStore ==
  /\ variant = "sliding"
  /\ fileSize \in 1..((MAX_CONCURRENT_UPLOADS + 1) * CHUNK_SIZE)
  /\ cancelled \in BOOLEAN
  /\ pcMain = "start"
  /\ i = 0
  /\ chunks = <<>>
  /\ cst = [c \in ChunkIdx |-> "idle"]
  /\ attempt = [c \in ChunkIdx |-> 0]
  /\ calls = [c \in ChunkIdx |-> 0]
  /\ fails = [c \in ChunkIdx |-> 0]
  /\ okCalls = [c \in ChunkIdx |-> 0]
  /\ lastErr = [c \in ChunkIdx |-> NoErr]
  /\ waited = [c \in ChunkIdx |-> <<>>]
  /\ reason = [c \in ChunkIdx |-> NoErr]
  /\ uploadedChunks = 0
  /\ progress = 0
  /\ status = "none"
  /\ records = <<>>
  /\ thrown = NoErr
  /\ cancelledAtStart = cancelled
  /\ cancelledAtIssue = FALSE
  /\ timestamp = 0
  /\ clock = 1
  /\ plan1 = <<>>
  /\ plan2 = <<>>
  /\ hung = {}
  /\ aborted = [c \in ChunkIdx |-> FALSE]
  /\ user = TRUE
  /\ userProfile = NoProfile
  /\ batch = <<>>
  /\ cur = 0
  /\ pcDrop = "none"
  /\ uploading = TRUE
  /\ toasts = {}
  /\ earlier = <<>>
  /\ curName = "a.ext"
  /\ clearPending = FALSE
  /\ uploadedBytes = 0
  /\ \E K \in SUBSET PlanKeys(fileSize, clock) :
       /\ Cardinality(K) <= 1
       /\ storage = [k \in K |-> EarlierObject]
  /\ storage_used = 0
  /\ pcDelete = "idle"
  /\ delId = 0
  /\ refreshing = FALSE

NextStore ==
  \/ Begin
  \/ SlidingCancelled
  \/ SlidingAwaitSlot
  \/ SlidingDispatch
  \/ AwaitRejected
  \/ JoinResolved
  \/ JoinRejected
  \/ Finalize
  \/ InsertOk
  \/ InsertFails
  \/ \E c \in ChunkIdx : UploadSucceeds(c)
  \/ \E c \in ChunkIdx : \E kind \in {"result", "thrown"} : UploadFails(c, kind)
  \/ \E c \in ChunkIdx : TimerFires(c)
  \/ CancelUpload

SpecStore == InitStore /\ [][NextStore]_vars

\* the storage upload call of chunk c returns without error in this step
CallSucceeds(c) == okCalls'[c] = okCalls[c] + 1

\* a step of the upload, seen from the bucket: an object that exists is
\* replaced only by a call of chunk 0, a call of a later chunk succeeds only
\* on a free key, and while an object is at the key of a later chunk a call
\* of that chunk can only end as a failure and the object stays as it is
BucketStep ==
  /\ \A k \in DOMAIN storage :
       /\ k \in DOMAIN storage'
       /\ storage'[k] # storage[k] =>
            \E c \in ChunkIdx :
              /\ chunks[c].index = 0 /\ chunks[c].fileName = k
              /\ CallSucceeds(c)
  /\ \A c \in ChunkIdx :
       (c \in DOMAIN chunks /\ chunks[c].index > 0
          /\ chunks[c].fileName \in DOMAIN storage) =>
         /\ ~CallSucceeds(c)
         /\ (cst[c] = "uploading" /\ cst'[c] # "uploading") =>
              fails'[c] = fails[c] + 1
         /\ storage'[chunks[c].fileName] = storage[chunks[c].fileName]

\* C25: a storage upload call may overwrite an existing object if and only
\* if it is the call of chunk 0; a call of a later chunk onto a key that
\* holds an object fails and leaves the object unchanged.
C25_UpsertOnlyFirstChunk == [][BucketStep]_vars

\* every call of a later chunk onto a key that held an object failed, and
\* the object is as it was
C25_Witness ==
  \E c \in ChunkIdx :
    /\ c > 0 /\ cst[c] = "rejected" /\ fails[c] = MAX_RETRIES
    /\ chunks[c].fileName \in DOMAIN storage
    /\ storage[chunks[c].fileName] = EarlierObject

(* ------------------------------ user_files and storage_used ----------- *)

\* the rows of user_files of one user that are looked at
MaxRows == 3

\* the ids of the rows of user_files
RowIds == {records[k].id : k \in 1..Len(records)}

\* id UUID DEFAULT gen_random_uuid(): an id no row has
FreshId == IF RowIds = {} THEN 1
           ELSE 1 + (CHOOSE m \in RowIds : \A n \in RowIds : n <= m)

\* the table without its k-th row
WithoutRow(rows, k) ==
  [n \in 1..(Len(rows) - 1) |-> IF n < k THEN rows[n] ELSE rows[n + 1]]

RECURSIVE SumFileSizes(_)
\* the sum of file_size over the rows
SumFileSizes(rows) ==
  IF rows = <<>> THEN 0
  ELSE rows[1].file_size + SumFileSizes(Tail(rows))

\* a user with a fresh profile (storage_used DEFAULT 0) and no file
InitDb == Init /\ variant = "sliding" /\ fileSize = 0 /\ ~cancelled

\* INSERT INTO user_files, then the trigger on_file_insert
InsertRow(size) ==
  /\ FreshId <= MaxRows
  /\ records' = Append(records,
       [id |-> FreshId, file_size |-> size,
        file_url |-> PublicUrl(FileName(userId, clock, fileExt))])
  /\ storage_used' = TriggerInsert(storage_used, size)
  /\ UNCHANGED <<dropConst, uploading, toasts, earlier>>
  /\ UNCHANGED <<uploadedBytes, storage, planVars, deleteVars, timeoutVars,
                 timestamp>>
  /\ UNCHANGED <<cancelledAtStart, variant, refreshing, fileSize, cancelled,
                 pcMain, i, chunks, chunkVars, uploadedChunks, progress,
                 status, thrown, cancelledAtIssue>>

\* DELETE FROM user_files WHERE id = ..., then the trigger on_file_delete
DeleteRow(k) ==
  /\ k \in 1..Len(records)
  /\ records' = WithoutRow(records, k)
  /\ storage_used' = TriggerDelete(storage_used, records[k].file_size)
  /\ UNCHANGED <<dropConst, uploading, toasts, earlier>>
  /\ UNCHANGED <<uploadedBytes, storage, planVars, deleteVars, timeoutVars,
                 timestamp>>
  /\ UNCHANGED <<cancelledAtStart, variant, refreshing, fileSize, cancelled,
                 pcMain, i, chunks, chunkVars, uploadedChunks, progress,
                 status, thrown, cancelledAtIssue>>

NextDb ==
  \/ \E size \in FileSizes : InsertRow(size)
  \/ \E k \in 1..MaxRows : DeleteRow(k)

SpecDb == InitDb /\ [][NextDb]_vars

\* C27: after any sequence of inserts into and deletes from user_files,
\* storage_used is the sum of file_size over the rows that exist, and so it
\* is not negative.
C27_StorageUsedIsSum ==
  /\ storage_used = SumFileSizes(records)
  /\ storage_used >= 0

\* the first row was deleted and a later row with bytes in it exists
C27_Witness ==
  /\ 1 \notin RowIds /\ 2 \in RowIds
  /\ storage_used > 0

(* ------------------------------ after the task has failed ------------- *)

\* a step taken after the sliding-window uploadFileInChunks rejected with a
\* chunk's upload error: no storage upload call is started and the file's
\* progress entry is not written
QuietAfterFailureStep ==
  (/\ variant = "sliding" /\ pcMain = "failed" /\ status = "error"
   /\ thrown[1] \in {"result", "thrown"})
    => calls' = calls /\ progress' = progress

\* C35: once the sliding-window uploadFileInChunks has rejected because a
\* chunk failed for good, the chunks still in flight start no further storage
\* upload call and write no further progress update.
C35_QuietAfterFailure == [][QuietAfterFailureStep]_vars

(* ------------------------------ the entries of the other files -------- *)

\* a step of the upload of the current file (not a step of onDrop itself,
\* of the timer that clears the list, or to the next file) leaves the
\* entries of the earlier files of the batch as they are
OtherEntriesStep ==
  (cur' = cur /\ pcDrop' = pcDrop /\ clearPending' = clearPending)
    => earlier' = earlier

\* C32: a progress or status update made for one file changes only that
\* file's entry of uploadProgress.
C32_ProgressIsolation == [][OtherEntriesStep]_vars

(* ------------------------------ object keys of different files -------- *)

\* the object keys the inserted records refer to, as public URLs
ReferredUrls == {records[k].file_url : k \in 1..Len(records)}

\* a step in which a storage upload call returns without error writes to a
\* key no record refers to
NoOverwriteStep ==
  cur' = cur =>
    \A c \in DOMAIN chunks :
      CallSucceeds(c) => PublicUrl(chunks[c].fileName) \notin ReferredUrls

\* C34: two files uploaded by the same user never use the same object key,
\* so no storage upload call writes over an object that a user_files record
\* refers to.
C34_DistinctKeys == [][NoOverwriteStep]_vars

(* ------------------------------ a response that is lost --------------- *)

\* the storage upload call of chunk c stored the object, but the response
\* did not reach the client: the await throws, and uploadChunk goes on as
\* after any thrown error
ResponseLost(c) ==
  /\ ~Runnable
  /\ cst[c] = "uploading" /\ c \notin hung
  /\ CanStore(storage, chunks[c].fileName, Upsert(chunks[c].index))
  /\ storage' = Put(storage, chunks[c].fileName, StoredChunk(chunks[c]))
  /\ LET err == <<"thrown", attempt[c]>> IN
     /\ fails' = [fails EXCEPT ![c] = @ + 1]
     /\ lastErr' = [lastErr EXCEPT ![c] = err]
     /\ uploadedChunks' = CountAfterCall(uploadedChunks, "thrown")
     /\ IF IsLastAttempt(attempt[c])
          THEN /\ cst' = [cst EXCEPT ![c] = "rejected"]
               /\ reason' = [reason EXCEPT ![c] = err]
               /\ UNCHANGED waited
          ELSE /\ cst' = [cst EXCEPT ![c] = "backoff"]
               /\ waited' = [waited EXCEPT
                               ![c] = Append(@, RetryDelay(variant, attempt[c]))]
               /\ UNCHANGED reason
  /\ aborted' = [aborted EXCEPT ![c] = FALSE]
  /\ UNCHANGED <<dropConst, uploading, toasts, earlier>>
  /\ UNCHANGED <<uploadedBytes, storage_used, planVars, deleteVars, hung,
                 timestamp>>
  /\ UNCHANGED <<cancelledAtStart, variant, refreshing, fileSize, cancelled,
                 pcMain, i, chunks, attempt, calls, okCalls, progress,
                 status, records, thrown, cancelledAtIssue>>

InitLost == Init /\ variant = "sliding"

NextLost ==
  \/ Begin
  \/ SlidingCancelled
  \/ SlidingAwaitSlot
  \/ SlidingDispatch
  \/ AwaitRejected
  \/ JoinResolved
  \/ JoinRejected
  \/ Finalize
  \/ InsertOk
  \/ InsertFails
  \/ \E c \in ChunkIdx : UploadSucceeds(c)
  \/ \E c \in ChunkIdx : \E kind \in {"result", "thrown"} : UploadFails(c, kind)
  \/ \E c \in ChunkIdx : TimerFires(c)
  \/ CancelUpload
  \/ \E c \in ChunkIdx : ResponseLost(c)

SpecLost == InitLost /\ [][NextLost]_vars

\* the object of chunk c is in the bucket although no call of the chunk
\* returned without error: an attempt stored it and was seen as a failure
StoredUnacknowledged(c) ==
  chunks[c].fileName \in DOMAIN storage /\ okCalls[c] = 0

\* C33: when an attempt of a chunk stored the object but was seen as a
\* failure, a retry of the chunk that reaches the storage service is
\* accepted by it.
C33_RetryIdempotent ==
  \A c \in DOMAIN chunks :
    (cst[c] = "uploading" /\ StoredUnacknowledged(c)) =>
      CanStore(storage, chunks[c].fileName, Upsert(chunks[c].index))

(* ------------------------------ termination --------------------------- *)

\* what the program and its environment do, the user aside: the event loop
\* runs every callback that is ready, every storage upload call and the
\* insert return, every backoff timer fires
Progresses ==
  \/ Begin
  \/ SlidingCancelled
  \/ SlidingAwaitSlot
  \/ SlidingDispatch
  \/ AwaitRejected
  \/ JoinResolved
  \/ JoinRejected
  \/ BatchStart
  \/ BatchSettled
  \/ SeqDispatch
  \/ SeqResume
  \/ Finalize
  \/ InsertOk
  \/ InsertFails
  \/ \E c \in ChunkIdx : UploadSucceeds(c)
  \/ \E c \in ChunkIdx : \E kind \in {"result", "thrown"} : UploadFails(c, kind)
  \/ \E c \in ChunkIdx : TimerFires(c)

\* files of zero chunks up to one chunk more than the window holds
LiveSizes == {n * CHUNK_SIZE : n \in 0..(MAX_CONCURRENT_UPLOADS + 1)}

InitLive == Init /\ fileSize \in LiveSizes

SpecLive == InitLive /\ [][Next]_vars /\ WF_vars(Progresses)

RECURSIVE SumCalls(_)
\* the storage upload calls started for the chunks of S
SumCalls(S) ==
  IF S = {} THEN 0
  ELSE LET c == CHOOSE x \in S : TRUE
       IN calls[c] + SumCalls(S \ {c})

\* uploadFileInChunks has settled, with a terminal status
SettledTask == Finished /\ status \in Terminal

\* C36: when every storage upload call and the insert return, every
\* invocation of uploadFileInChunks settles as complete, cancelled or error,
\* and never more than totalChunks * MAX_RETRIES storage upload calls are
\* started.
C36_Termination ==
  /\ <>SettledTask
  /\ [](SumCalls(ChunkIdx) <= totalChunks * MAX_RETRIES)

\* the task has settled after a chunk used every attempt
C36_Witness ==
  /\ SettledTask
  /\ \E c \in ChunkIdx : calls[c] = MAX_RETRIES

(* ------------------------------ deleteFile ---------------------------- *)

\* the object key of the file whose row has the id n
KeyOfRow(n) == FileName(userId, n, fileExt)

\* the user's files before deleteFile is called: rows 1..n of user_files,
\* each with its object in the bucket
StoredFiles ==
  UNION {[1..n -> {CHUNK_SIZE, CHUNK_SIZE + 1}] : n \in 1..MaxRows}

\* the row of user_files with the id n exists
RowExists(n) == n \in RowIds

\* an object is stored at the key of the file with the id n
ObjectExists(n) == KeyOfRow(n) \in DOMAIN storage

InitDelete ==
  /\ variant = "sliding"
  /\ fileSize = 0
  /\ cancelled = FALSE
  /\ pcMain = "idle"
  /\ i = 0
  /\ chunks = <<>>
  /\ cst = <<>> /\ attempt = <<>> /\ calls = <<>> /\ fails = <<>>
  /\ okCalls = <<>> /\ lastErr = <<>> /\ waited = <<>> /\ reason = <<>>
  /\ uploadedChunks = 0
  /\ progress = 0
  /\ status = "none"
  /\ thrown = NoErr
  /\ cancelledAtStart = FALSE
  /\ cancelledAtIssue = FALSE
  /\ timestamp = 0
  /\ clock = 1
  /\ plan1 = <<>>
  /\ plan2 = <<>>
  /\ hung = {}
  /\ aborted = <<>>
  /\ user = TRUE
  /\ userProfile = NoProfile
  /\ batch = <<>>
  /\ cur = 0
  /\ pcDrop = "none"
  /\ uploading = FALSE
  /\ toasts = {}
  /\ earlier = <<>>
  /\ curName = "none"
  /\ clearPending = FALSE
  /\ uploadedBytes = 0
  /\ \E sizes \in StoredFiles :
       /\ records = [n \in DOMAIN sizes |->
                       [id |-> n, file_size |-> sizes[n],
                        file_url |-> PublicUrl(KeyOfRow(n))]]
       /\ storage = [k \in {KeyOfRow(n) : n \in DOMAIN sizes} |->
                       [by |-> "upload", index |-> 0,
                        size |-> sizes[CHOOSE n \in DOMAIN sizes :
                                         KeyOfRow(n) = k]]]
       /\ storage_used = SumFileSizes(records)
  /\ pcDelete = "idle"
  /\ delId = 0
  /\ refreshing = FALSE

\* deleteFile(fileId, filePath) is called for a file whose row and object
\* both exist: storage.remove([filePath]) is issued
DeleteFile(n) ==
  /\ pcDelete = "idle"
  /\ RowExists(n) /\ ObjectExists(n)
  /\ delId' = n
  /\ pcDelete' = "remove"
  /\ UNCHANGED <<dropConst, uploading, toasts, earlier>>
  /\ UNCHANGED <<storeVars, planVars, timeoutVars, timestamp>>
  /\ UNCHANGED <<cancelledAtStart, variant, refreshing, fileSize, cancelled,
                 pcMain, i, chunks, chunkVars, uploadedChunks, progress,
                 status, records, thrown, cancelledAtIssue>>

\* storage.remove returned without error: the row delete is issued
RemoveOk ==
  /\ pcDelete = "remove"
  /\ storage' = [k \in DOMAIN storage \ {KeyOfRow(delId)} |-> storage[k]]
  /\ pcDelete' = "delete"
  /\ UNCHANGED <<dropConst, uploading, toasts, earlier>>
  /\ UNCHANGED <<uploadedBytes, storage_used, delId, planVars, timeoutVars,
                 timestamp>>
  /\ UNCHANGED <<cancelledAtStart, variant, refreshing, fileSize, cancelled,
                 pcMain, i, chunks, chunkVars, uploadedChunks, progress,
                 status, records, thrown, cancelledAtIssue>>

\* storage.remove returned storageError: throw
RemoveFails ==
  /\ pcDelete = "remove"
  /\ pcDelete' = "thrown"
  /\ UNCHANGED <<dropConst, uploading, toasts, earlier>>
  /\ UNCHANGED <<storeVars, delId, planVars, timeoutVars, timestamp>>
  /\ UNCHANGED <<cancelledAtStart, variant, refreshing, fileSize, cancelled,
                 pcMain, i, chunks, chunkVars, uploadedChunks, progress,
                 status, records, thrown, cancelledAtIssue>>

\* the row delete returned without error (the trigger on_file_delete ran),
\* fetchFiles, return
DbDeleteOk ==
  /\ pcDelete = "delete"
  /\ LET k == CHOOSE n \in 1..Len(records) : records[n].id = delId IN
     /\ records' = WithoutRow(records, k)
     /\ storage_used' = TriggerDelete(storage_used, records[k].file_size)
  /\ pcDelete' = "returned"
  /\ UNCHANGED <<dropConst, uploading, toasts, earlier>>
  /\ UNCHANGED <<uploadedBytes, storage, delId, planVars, timeoutVars,
                 timestamp>>
  /\ UNCHANGED <<cancelledAtStart, variant, refreshing, fileSize, cancelled,
                 pcMain, i, chunks, chunkVars, uploadedChunks, progress,
                 status, thrown, cancelledAtIssue>>

\* the row delete returned dbError: throw
DbDeleteFails ==
  /\ pcDelete = "delete"
  /\ pcDelete' = "thrown"
  /\ UNCHANGED <<dropConst, uploading, toasts, earlier>>
  /\ UNCHANGED <<storeVars, delId, planVars, timeoutVars, timestamp>>
  /\ UNCHANGED <<cancelledAtStart, variant, refreshing, fileSize, cancelled,
                 pcMain, i, chunks, chunkVars, uploadedChunks, progress,
                 status, records, thrown, cancelledAtIssue>>

\* the caller has handled the outcome; another file can be deleted
DeleteSettled ==
  /\ pcDelete \in {"returned", "thrown"}
  /\ pcDelete' = "idle"
  /\ UNCHANGED <<dropConst, uploading, toasts, earlier>>
  /\ UNCHANGED <<storeVars, delId, planVars, timeoutVars, timestamp>>
  /\ UNCHANGED <<cancelledAtStart, variant, refreshing, fileSize, cancelled,
                 pcMain, i, chunks, chunkVars, uploadedChunks, progress,
                 status, records, thrown, cancelledAtIssue>>

NextDelete ==
  \/ \E n \in 1..MaxRows : DeleteFile(n)
  \/ RemoveOk
  \/ RemoveFails
  \/ DbDeleteOk
  \/ DbDeleteFails
  \/ DeleteSettled

SpecDelete == InitDelete /\ [][NextDelete]_vars

\* C37: when deleteFile, called for a file whose row and object both exist,
\* has returned or thrown, the row exists if and only if the object exists:
\* both are gone after a return, both are kept after a throw.
C37_DeleteConsistent ==
  /\ pcDelete = "returned" => ~RowExists(delId) /\ ~ObjectExists(delId)
  /\ pcDelete = "thrown" => RowExists(delId) /\ ObjectExists(delId)

(* ------------------------------ the quota over several batches -------- *)

\* a storage_limit that one batch of one-chunk files fills exactly
QuotaLimit == MaxBatch * SmallFile

\* a fresh account: the snapshot shows what the database holds
QuotaProfile ==
  [present |-> TRUE, storage_used |-> 0, storage_limit |-> QuotaLimit]

\* batches of one-chunk files
QuotaBatches ==
  {b \in Batches : b # <<>> /\ \A k \in DOMAIN b : b[k].size = SmallFile}

InitQuota == InitDropFrom({QuotaProfile}, QuotaBatches) /\ user

\* the previous onDrop has returned, the dropzone is enabled again
\* (disabled: uploading), a refresh that was started has landed, and the user
\* drops a further batch; no further batch once the limit is exceeded
DropAgain ==
  /\ pcDrop \in {"finished", "rejected"}
  /\ ~uploading /\ ~refreshing
  /\ pcMain \in {"idle", "done", "failed"}
  /\ storage_used <= userProfile.storage_limit
  /\ batch' \in QuotaBatches
  /\ cur' = 0
  /\ pcDrop' = "idle"
  /\ pcMain' = "idle"
  /\ UNCHANGED <<user, userProfile, curName, clearPending, uploading, toasts,
                 earlier>>
  /\ UNCHANGED <<storeVars, planVars, deleteVars, timeoutVars, timestamp>>
  /\ UNCHANGED <<cancelledAtStart, variant, refreshing, fileSize, cancelled,
                 i, chunks, chunkVars, uploadedChunks, progress, status,
                 records, thrown, cancelledAtIssue>>

NextQuota ==
  \/ OnDrop
  \/ DropNextFile
  \/ DropLoopEnd
  \/ DropCatch
  \/ ClearProgress
  \/ RefreshProfile
  \/ DropAgain
  \/ Begin
  \/ SlidingDispatch
  \/ JoinResolved
  \/ JoinRejected
  \/ Finalize
  \/ InsertOk
  \/ InsertFails
  \/ \E c \in ChunkIdx : UploadSucceeds(c)
  \/ \E c \in ChunkIdx : \E kind \in {"result", "thrown"} : UploadFails(c, kind)
  \/ \E c \in ChunkIdx : TimerFires(c)
  \/ CancelUpload

SpecQuota == InitQuota /\ [][NextQuota]_vars

\* C31: after any sequence of onDrop batches that each passed the pre-flight
\* test against the profile snapshot of the component, batches that failed or
\* were cancelled after committing files included, storage_used in the
\* database never exceeds storage_limit
C31_QuotaRespected == storage_used <= userProfile.storage_limit

====
